---- MODULE Spec2Model ----
(***************************************************************************)
(* Model of the Kino-bot (src/main.py): the catalog store (movies,         *)
(* categories, users), the access control (is_admin, is_subscribed) and    *)
(* the interaction dispatcher (start, admin, button_handler, text_handler, *)
(* get_file_id) with the five per-user pending flags.                      *)
(*                                                                         *)
(* A text is a sequence of one-character strings, so that strip, split and *)
(* the ILIKE match are computed as the code computes them.                 *)
(*                                                                         *)
(* The five dictionaries adding_movie .. deleting_category are only ever   *)
(* read through dict.get(user_id) in a truth test, so each is modelled by  *)
(* its truthiness per user: a missing key (None) and False are both FALSE. *)
(*                                                                         *)
(* The application is built without concurrent_updates, so updates are     *)
(* processed one after the other: every handler is one atomic action       *)
(* (Spec).  SpecBroadcast is the broadcast to three stored users, and      *)
(* SpecConcurrent is text_handler split at its awaits with two runs in     *)
(* flight, for the question of what interleaved runs would do.             *)
(*                                                                         *)
(* Failures of the environment: a database round trip can raise, which     *)
(* ends the handler there (dbFail); a membership lookup can raise, which   *)
(* is_subscribed catches; a broadcast delivery can raise, which the loop   *)
(* skips.  Replies to the sender are taken to be delivered.                *)
(***************************************************************************)
EXTENDS Integers, Sequences, FiniteSets, TLC

\* ---------------------------------------------------------------- bounds
\* views are capped: a view is not counted in the model beyond MaxViews
MaxViews == 1

\* the largest number of database round trips in one run of a handler
\* (the statistics branch of text_handler: users, movies, categories)
MaxDbCalls == 3

\* ------------------------------------------------------------ text model
Whitespace == {" "}

RECURSIVE LStrip(_)
LStrip(s) ==
    IF s # <<>> /\ Head(s) \in Whitespace THEN LStrip(Tail(s)) ELSE s

RECURSIVE RStrip(_)
RStrip(s) ==
    IF s # <<>> /\ s[Len(s)] \in Whitespace
    THEN RStrip(SubSeq(s, 1, Len(s) - 1))
    ELSE s

\* str.strip(): both ends lose their whitespace, the inside is kept
Strip(s) == RStrip(LStrip(s))

\* str.split(";"): the pieces between the delimiters, empty pieces included
RECURSIVE SplitFrom(_, _, _)
SplitFrom(s, i, cur) ==
    IF i > Len(s) THEN <<cur>>
    ELSE IF s[i] = ";" THEN <<cur>> \o SplitFrom(s, i + 1, <<>>)
    ELSE SplitFrom(s, i + 1, Append(cur, s[i]))

Split(s) == SplitFrom(s, 1, <<>>)

\* faulty variant: the fields are used as split, untrimmed
StripNone(parts) == parts

\* map(str.strip, parts)
StripAll(parts) == [i \in 1..Len(parts) |-> Strip(parts[i])]

StartsWith(s, p) == Len(s) >= Len(p) /\ SubSeq(s, 1, Len(p)) = p

\* data.split("_", 1)[1] for a data that starts with a prefix ending in the
\* first "_": what follows the prefix
AfterPrefix(s, p) == SubSeq(s, Len(p) + 1, Len(s))

LowerChar(c) ==
    CASE c = "A" -> "a"
      [] c = "B" -> "b"
      [] c = "K" -> "k"
      [] c = "O" -> "o"
      [] c = "S" -> "s"
      [] c = "T" -> "t"
      [] c = "X" -> "x"
      [] OTHER -> c

Lower(s) == [i \in 1..Len(s) |-> LowerChar(s[i])]

\* SQL LIKE: "%" matches any run of characters, "_" any one character
RECURSIVE Like(_, _)
Like(s, p) ==
    IF p = <<>> THEN s = <<>>
    ELSE IF Head(p) = "%"
         THEN Like(s, Tail(p)) \/ (s # <<>> /\ Like(Tail(s), p))
    ELSE IF s = <<>> THEN FALSE
    ELSE (Head(p) = "_" \/ Head(p) = Head(s)) /\ Like(Tail(s), Tail(p))

\* title ILIKE '%text%'
ILikeContains(title, text) ==
    Like(Lower(title), <<"%">> \o Lower(text) \o <<"%">>)


\* --------------------------------------------------------- configuration
\* str(user_id): the key of the allowlist, of the users table and of the flags
StrOf(n) ==
    CASE n = 1 -> "1"
      [] n = 2 -> "2"
      [] n = 3 -> "3"

\* the platform users that talk to the bot
UserIds == {1, 2}

\* the platform ids that a row of the users table can hold
StoredIds == {1, 2, 3}

\* int(user["user_id"])
IntOf(k) == CHOOSE n \in StoredIds : StrOf(n) = k

\* the ADMINS environment variable, split on ","
ADMINS == {"1"}

\* user.username, None for a user without one
NoName == <<>>
UsernameOf(n) ==
    CASE n = 1 -> <<"a">>
      [] n = 2 -> NoName

\* the CHANNELS environment variable, split on "," (not yet stripped)
CHANNELS == << <<"@", "a">>, <<" ", "@", "b">>, <<"@", "o", " ">> >>

ChannelNames == {Strip(CHANNELS[i]) : i \in 1..Len(CHANNELS)}

\* ChatMember.status values of the platform; "creator" is the owner
Statuses == {"creator", "administrator", "member", "restricted", "left", "kicked"}

\* get_chat_member raising instead of answering
LookupError == "error"

\* what the platform would answer for one user, per channel
Memberships == [ChannelNames -> Statuses \cup {LookupError}]

\* --------------------------------------------------------- access control
\* faulty variant: the allowlist is not consulted
is_admin_everyone(user_id) == TRUE

is_admin(user_id) == user_id \in ADMINS

AcceptedStatuses == {"member", "administrator", "creator"}

\* the loop of is_subscribed from channel i on; queried is the list of the
\* channels looked up so far.  Result: [result, queried]
RECURSIVE SubscribedFrom(_, _, _)
SubscribedFrom(i, membership, queried) ==
    IF i > Len(CHANNELS) THEN [result |-> TRUE, queried |-> queried]
    ELSE LET channel == Strip(CHANNELS[i])
             asked == Append(queried, channel)
         IN  IF membership[channel] = LookupError
             THEN [result |-> FALSE, queried |-> asked]
             ELSE IF membership[channel] \notin AcceptedStatuses
             THEN [result |-> FALSE, queried |-> asked]
             ELSE SubscribedFrom(i + 1, membership, asked)

\* faulty variant: a lookup that raises is passed over (fail-open)
is_subscribed_open(membership) ==
    SubscribedFrom(1,
        [c \in DOMAIN membership |->
            IF membership[c] = LookupError THEN "member" ELSE membership[c]],
        <<>>)

is_subscribed(membership) == SubscribedFrom(1, membership, <<>>)

\* ----------------------------------------------------------- catalog store
\* a table is the set of its rows; the primary key is kept by the operations

MovieRow(code, file_id, title, category, views) ==
    [code |-> code, file_id |-> file_id, title |-> title,
     category |-> category, views |-> views]

\* faulty variant: the row is replaced on conflict, views and all
add_movie_replacing(rows, code, file_id, title, category) ==
    {r \in rows : r.code # code} \cup {MovieRow(code, file_id, title, category, 0)}

\* INSERT .. views=0 .. ON CONFLICT (code) DO UPDATE SET file_id, title, category
add_movie(rows, code, file_id, title, category) ==
    IF \E r \in rows : r.code = code
    THEN {IF r.code = code
          THEN [r EXCEPT !.file_id = file_id, !.title = title, !.category = category]
          ELSE r : r \in rows}
    ELSE rows \cup {MovieRow(code, file_id, title, category, 0)}

delete_movie(rows, code) == {r \in rows : r.code # code}

\* INSERT .. ON CONFLICT DO NOTHING
add_category(names, name) == names \cup {name}

\* faulty variant: the DELETE never matches
delete_category_nothing(names, name) == names

delete_category(names, name) == names \ {name}

\* fetch_one: the rows with that code (none or one)
get_movie(rows, code) == {r \in rows : r.code = code}

\* the character order of the ORDER BY collation
Ascii(c) ==
    CASE c = " " -> 32
      [] c = "A" -> 65
      [] c = "B" -> 66
      [] c = "O" -> 79
      [] c = "T" -> 84
      [] c = "a" -> 97
      [] c = "b" -> 98
      [] c = "c" -> 99
      [] c = "d" -> 100
      [] c = "o" -> 111
      [] OTHER -> 127

RECURSIVE TextLeq(_, _)
TextLeq(a, b) ==
    IF a = <<>> THEN TRUE
    ELSE IF b = <<>> THEN FALSE
    ELSE IF Head(a) = Head(b) THEN TextLeq(Tail(a), Tail(b))
    ELSE Ascii(Head(a)) < Ascii(Head(b))

\* the lists a SELECT without ORDER BY can return: the rows in any order
Orders(S) ==
    {q \in [1..Cardinality(S) -> S] : {q[i] : i \in 1..Cardinality(S)} = S}

Min(a, b) == IF a <= b THEN a ELSE b

\* SELECT .. ORDER BY title: every list in that order
get_all_movies(rows) ==
    {q \in Orders(rows) :
        \A i \in 1..(Len(q) - 1) : TextLeq(q[i].title, q[i + 1].title)}

get_movies_by_category(rows, category) ==
    Orders({r \in rows : r.category = category})

search_movies(rows, query_text) ==
    Orders({r \in rows : ILikeContains(r.title, query_text)})

\* SELECT .. ORDER BY name, then the names
get_all_categories(names) ==
    {q \in Orders(names) : \A i \in 1..(Len(q) - 1) : TextLeq(q[i], q[i + 1])}

get_user_count(urows) == Cardinality(urows)

get_movie_count(rows) == Cardinality(rows)

\* SELECT .. ORDER BY views DESC LIMIT limit
get_top_movies(rows, limit) ==
    {SubSeq(q, 1, Min(limit, Len(q))) :
        q \in {o \in Orders(rows) :
                 \A i \in 1..(Len(o) - 1) : o[i].views >= o[i + 1].views}}

\* faulty variant: the UPDATE counts down
update_movie_views_down(rows, code) ==
    {IF r.code = code THEN [r EXCEPT !.views = @ - 1] ELSE r : r \in rows}

\* faulty variant: the UPDATE has no WHERE
update_every_views(rows, code) == {[r EXCEPT !.views = @ + 1] : r \in rows}

\* UPDATE movies SET views = views + 1 WHERE code = :code
update_movie_views(rows, code) ==
    {IF r.code = code THEN [r EXCEPT !.views = @ + 1] ELSE r : r \in rows}

\* INSERT .. ON CONFLICT (user_id) DO UPDATE SET username
add_user(urows, user_id, username) ==
    {r \in urows : r.user_id # user_id}
        \cup {[user_id |-> user_id, username |-> username]}


\* ------------------------------------------------------- admin menu labels
\* the labels of the admin keyboard; the leading pictogram of each label is
\* written as one ASCII character
LabelStats ==
    <<"#", " ", "S", "t", "a", "t", "i", "s", "t", "i", "k", "a">>

LabelAddMovie ==
    <<"+", " ", "K", "i", "n", "o", " ", "q", "o", "'", "s", "h", "i", "s", "h">>

LabelDeleteMovie ==
    <<"x", " ", "K", "i", "n", "o", " ", "o", "'", "c", "h", "i", "r", "i", "s", "h">>

LabelAddCategory ==
    <<"=", " ", "K", "a", "t", "e", "g", "o", "r", "i", "y", "a", " ", "q", "o", "'", "s", "h", "i", "s", "h">>

LabelDeleteCategory ==
    <<"-", " ", "K", "a", "t", "e", "g", "o", "r", "i", "y", "a", " ", "o", "'", "c", "h", "i", "r", "i", "s", "h">>

LabelTop ==
    <<"^", " ", "T", "o", "p", " ", "k", "i", "n", "o", "l", "a", "r">>

LabelBroadcast ==
    <<">", " ", "X", "a", "b", "a", "r", " ", "y", "u", "b", "o", "r", "i", "s", "h">>

\* callback data of the inline buttons
DataMovies == <<"m", "o", "v", "i", "e", "s">>
DataCategories == <<"c", "a", "t", "e", "g", "o", "r", "i", "e", "s">>
DataSearch == <<"s", "e", "a", "r", "c", "h">>
DataInfo == <<"i", "n", "f", "o">>
PrefixCategory == <<"c", "a", "t", "e", "g", "o", "r", "y", "_">>
PrefixMovie == <<"m", "o", "v", "i", "e", "_">>


\* -------------------------------------------------------------------- state
VARIABLES
    movies,             \* rows of the movies table
    categories,         \* names in the categories table
    users,              \* rows of the users table
    adding_movie,       \* the five pending flags, per str(user id)
    deleting_movie,
    broadcasting,
    adding_category,
    deleting_category,
    last,               \* what the handler that ran last was given and did
    peak_views,         \* history: per code, the highest views a row has had
    running,            \* the runs of text_handler suspended at an await
    executed            \* history: per user, the executions of the pending
                        \* operation of the user's current awaiting state

tables == <<movies, categories, users>>
flags == <<adding_movie, deleting_movie, broadcasting, adding_category,
           deleting_category>>
vars == <<movies, categories, users, adding_movie, deleting_movie,
          broadcasting, adding_category, deleting_category, last, peak_views,
          running, executed>>

StrIds == {StrOf(n) : n \in UserIds}

NoFlags == [k \in StrIds |-> FALSE]

\* the record of one handler run: the update it was given (user, input),
\* the outcome of the subscription check ("pass", "fail" or "none" when the
\* handler made no check) with the channels it looked up, the replies to the
\* sender in order, the broadcast deliveries attempted in order, whether the
\* handler ended by an exception, and the order of its messages: the one
\* handler that delivers (the broadcast) replies after its loop
Ran(handler, u, input, gate, queried, replies, sent, raised) ==
    [handler |-> handler, user |-> u, input |-> input, gate |-> gate,
     queried |-> queried, replies |-> replies, sent |-> sent, raised |-> raised,
     order |-> [i \in 1..Len(sent) |-> "send"] \o [i \in 1..Len(replies) |-> "reply"]]

Reply(kind, arg) == [kind |-> kind, arg |-> arg]

\* reply_video(file_id, caption=title)
Video(row) == Reply("video", <<row.file_id, row.title>>)

GateOf(sub) == IF sub.result THEN "pass" ELSE "fail"

\* the history variable after a step that leaves the movies table as rows:
\* every code stored now or before, with the highest views seen for it
PeakAfter(rows) ==
    [c \in DOMAIN peak_views \cup {r.code : r \in rows} |->
        LET now == {r.views : r \in {x \in rows : x.code = c}}
            before == IF c \in DOMAIN peak_views THEN {peak_views[c]} ELSE {}
        IN  CHOOSE v \in now \cup before : \A w \in now \cup before : w <= v]

\* the database outlives the process: the catalog the bot starts with, here
\* one movie added in an earlier run of the process
StoredMovies == {MovieRow(<<"B">>, <<"q">>, <<"B", "o">>, <<"c">>, 0)}

\* the runs of text_handler that can be in flight at once
Slots == {1, 2}

\* a slot without a run. A run holds the message it is for, its place in
\* the handler and the flow it took; stale is history: the user entered an
\* awaiting state anew after this run took its flow
Free == [pc |-> "free", user |-> 0, raw |-> <<>>, flow |-> "none", stale |-> FALSE]

NoRuns == [s \in Slots |-> Free]

Init ==
    /\ running = NoRuns
    /\ executed = [k \in StrIds |-> 0]
    /\ movies = StoredMovies
    /\ categories = {}
    /\ users = {}
    /\ adding_movie = NoFlags
    /\ deleting_movie = NoFlags
    /\ broadcasting = NoFlags
    /\ adding_category = NoFlags
    /\ deleting_category = NoFlags
    /\ last = Ran("none", 0, <<>>, "none", <<>>, <<>>, <<>>, FALSE)
    /\ peak_views = [c \in {r.code : r \in StoredMovies} |-> 0]


\* ------------------------------------------------------------ text_handler
\* every part below takes the sender u, the text of the message as received,
\* the outcome sub of is_subscribed, and dbFail: the number of the database
\* round trip of this run that raises (0: none does)

TextRan(u, raw, sub, replies, sent, raised) ==
    Ran("text", u, raw, GateOf(sub), sub.queried, replies, sent, raised)

\* the gate of text_handler failed
TextNotSubscribed(u, raw, sub, dbFail) ==
    /\ dbFail = 0
    /\ UNCHANGED <<peak_views, tables, flags>>
    /\ last' = TextRan(u, raw, sub, <<Reply("subscribe", <<>>)>>, <<>>, FALSE)

\* faulty variant: the flag is cleared whatever the text, before it is parsed
AddingMovieFlowClearsFirst(u, raw, sub, dbFail) ==
    LET user_id == StrOf(u)
        parts == Split(Strip(raw))
        f == StripAll(parts)
    IN  /\ dbFail = 0
        /\ adding_movie' = [adding_movie EXCEPT ![user_id] = FALSE]
        /\ UNCHANGED <<categories, users, deleting_movie, broadcasting,
                       adding_category, deleting_category>>
        /\ IF Len(parts) = 4
           THEN /\ movies' = add_movie(movies, f[1], f[2], f[3], f[4])
                /\ peak_views' = PeakAfter(movies')
                /\ last' = TextRan(u, raw, sub, <<Reply("added", f[3])>>, <<>>, FALSE)
           ELSE /\ UNCHANGED <<peak_views, movies>>
                /\ last' = TextRan(u, raw, sub, <<Reply("format", <<>>)>>, <<>>, FALSE)

\* if adding_movie.get(user_id): ...
AddingMovieFlow(u, raw, sub, dbFail) ==
    LET user_id == StrOf(u)
        text == Strip(raw)
        parts == Split(text)
    IN  IF Len(parts) >= 4
        THEN IF Len(parts) # 4
             THEN \* unpacking more than four values raises ValueError
                  /\ dbFail = 0
                  /\ UNCHANGED <<peak_views, tables, flags>>
                  /\ last' = TextRan(u, raw, sub, <<>>, <<>>, TRUE)
             ELSE LET f == StripAll(parts)
                  IN  IF dbFail = 1
                      THEN /\ UNCHANGED <<peak_views, tables, flags>>
                           /\ last' = TextRan(u, raw, sub, <<>>, <<>>, TRUE)
                      ELSE /\ dbFail = 0
                           /\ movies' = add_movie(movies, f[1], f[2], f[3], f[4])
                           /\ peak_views' = PeakAfter(movies')
                           /\ adding_movie' = [adding_movie EXCEPT ![user_id] = FALSE]
                           /\ UNCHANGED <<categories, users, deleting_movie,
                                          broadcasting, adding_category,
                                          deleting_category>>
                           /\ last' = TextRan(u, raw, sub,
                                          <<Reply("added", f[3])>>, <<>>, FALSE)
        ELSE /\ dbFail = 0
             /\ UNCHANGED <<peak_views, tables, flags>>
             /\ last' = TextRan(u, raw, sub, <<Reply("format", <<>>)>>, <<>>, FALSE)

\* faulty variant: the flag is cleared before the database call
DeletingMovieFlowClearsFirst(u, raw, sub, dbFail) ==
    LET user_id == StrOf(u)
        text == Strip(raw)
    IN  /\ dbFail \in 0..1
        /\ deleting_movie' = [deleting_movie EXCEPT ![user_id] = FALSE]
        /\ UNCHANGED <<categories, users, adding_movie, broadcasting,
                       adding_category, deleting_category>>
        /\ IF dbFail = 1
           THEN /\ UNCHANGED <<peak_views, movies>>
                /\ last' = TextRan(u, raw, sub, <<>>, <<>>, TRUE)
           ELSE /\ movies' = delete_movie(movies, text)
                /\ peak_views' = PeakAfter(movies')
                /\ last' = TextRan(u, raw, sub, <<Reply("deleted", text)>>, <<>>, FALSE)

\* if deleting_movie.get(user_id): ...
DeletingMovieFlow(u, raw, sub, dbFail) ==
    LET user_id == StrOf(u)
        text == Strip(raw)
    IN  IF dbFail = 1
        THEN /\ UNCHANGED <<peak_views, tables, flags>>
             /\ last' = TextRan(u, raw, sub, <<>>, <<>>, TRUE)
        ELSE /\ dbFail = 0
             /\ movies' = delete_movie(movies, text)
             /\ peak_views' = PeakAfter(movies')
             /\ deleting_movie' = [deleting_movie EXCEPT ![user_id] = FALSE]
             /\ UNCHANGED <<categories, users, adding_movie, broadcasting,
                            adding_category, deleting_category>>
             /\ last' = TextRan(u, raw, sub, <<Reply("deleted", text)>>, <<>>, FALSE)

\* if adding_category.get(user_id): ...
AddingCategoryFlow(u, raw, sub, dbFail) ==
    LET user_id == StrOf(u)
        text == Strip(raw)
    IN  IF dbFail = 1
        THEN /\ UNCHANGED <<peak_views, tables, flags>>
             /\ last' = TextRan(u, raw, sub, <<>>, <<>>, TRUE)
        ELSE /\ dbFail = 0
             /\ categories' = add_category(categories, text)
             /\ adding_category' = [adding_category EXCEPT ![user_id] = FALSE]
             /\ UNCHANGED <<peak_views, movies, users, adding_movie, deleting_movie,
                            broadcasting, deleting_category>>
             /\ last' = TextRan(u, raw, sub,
                            <<Reply("category_added", text)>>, <<>>, FALSE)

\* faulty variant: the delete cascades to the movies of the category
DeletingCategoryFlowCascading(u, raw, sub, dbFail) ==
    LET user_id == StrOf(u)
        text == Strip(raw)
    IN  IF dbFail = 1
        THEN /\ UNCHANGED <<peak_views, tables, flags>>
             /\ last' = TextRan(u, raw, sub, <<>>, <<>>, TRUE)
        ELSE /\ dbFail = 0
             /\ categories' = delete_category(categories, text)
             /\ movies' = {r \in movies : r.category # text}
             /\ peak_views' = PeakAfter(movies')
             /\ deleting_category' = [deleting_category EXCEPT ![user_id] = FALSE]
             /\ UNCHANGED <<users, adding_movie, deleting_movie, broadcasting,
                            adding_category>>
             /\ last' = TextRan(u, raw, sub,
                            <<Reply("category_deleted", text)>>, <<>>, FALSE)

\* if deleting_category.get(user_id): ...
DeletingCategoryFlow(u, raw, sub, dbFail) ==
    LET user_id == StrOf(u)
        text == Strip(raw)
    IN  IF dbFail = 1
        THEN /\ UNCHANGED <<peak_views, tables, flags>>
             /\ last' = TextRan(u, raw, sub, <<>>, <<>>, TRUE)
        ELSE /\ dbFail = 0
             /\ categories' = delete_category(categories, text)
             /\ deleting_category' = [deleting_category EXCEPT ![user_id] = FALSE]
             /\ UNCHANGED <<peak_views, movies, users, adding_movie, deleting_movie,
                            broadcasting, adding_category>>
             /\ last' = TextRan(u, raw, sub,
                            <<Reply("category_deleted", text)>>, <<>>, FALSE)

\* faulty variant: the first delivery that raises ends the loop
DeliveriesAborting(users_list, text, failing) ==
    LET stop == {i \in 1..Len(users_list) :
                    IntOf(users_list[i].user_id) \in failing}
        n == IF stop = {} THEN Len(users_list)
             ELSE CHOOSE i \in stop : \A j \in stop : i <= j
    IN  [i \in 1..n |->
            [to |-> IntOf(users_list[i].user_id), text |-> text,
             ok |-> IntOf(users_list[i].user_id) \notin failing]]

\* one send_message per row of users_list, in the order of the list; a
\* delivery to a user of `failing` raises and is skipped
Deliveries(users_list, text, failing) ==
    [i \in 1..Len(users_list) |->
        [to |-> IntOf(users_list[i].user_id), text |-> text,
         ok |-> IntOf(users_list[i].user_id) \notin failing]]

\* the broadcast from the read of the users on: the loop and the confirmation
BroadcastSend(u, raw, sub, dbFail) ==
    LET text == Strip(raw)
    IN  /\ dbFail \in 0..1
        /\ UNCHANGED <<peak_views, tables>>
        /\ IF dbFail = 1
           THEN last' = TextRan(u, raw, sub, <<>>, <<>>, TRUE)
           ELSE \E users_list \in Orders(users), failing \in SUBSET {IntOf(r.user_id) : r \in users} :
                    last' = TextRan(u, raw, sub, <<Reply("broadcast_done", <<>>)>>,
                                Deliveries(users_list, text, failing), FALSE)

\* if broadcasting.get(user_id): ...
BroadcastFlow(u, raw, sub, dbFail) ==
    /\ broadcasting' = [broadcasting EXCEPT ![StrOf(u)] = FALSE]
    /\ UNCHANGED <<adding_movie, deleting_movie, adding_category, deleting_category>>
    /\ BroadcastSend(u, raw, sub, dbFail)


\* the default limit of get_top_movies
TopLimit == 10

\* faulty variant: every flow label sets the first flag
AdminMenuFirstFlag(u, raw, sub, dbFail) ==
    /\ dbFail = 0
    /\ adding_movie' = [adding_movie EXCEPT ![StrOf(u)] = TRUE]
    /\ UNCHANGED <<peak_views, tables, deleting_movie, broadcasting, adding_category,
                   deleting_category>>
    /\ last' = TextRan(u, raw, sub, <<Reply("ask_movie", <<>>)>>, <<>>, FALSE)

\* the admin is in no pending flow: the text is matched against the labels
AdminMenu(u, raw, sub, dbFail) ==
    LET user_id == StrOf(u)
        text == Strip(raw)
    IN  IF text = LabelAddMovie
        THEN /\ dbFail = 0
             /\ adding_movie' = [adding_movie EXCEPT ![user_id] = TRUE]
             /\ UNCHANGED <<peak_views, tables, deleting_movie, broadcasting, adding_category,
                            deleting_category>>
             /\ last' = TextRan(u, raw, sub, <<Reply("ask_movie", <<>>)>>, <<>>, FALSE)
        ELSE IF text = LabelDeleteMovie
        THEN /\ dbFail = 0
             /\ deleting_movie' = [deleting_movie EXCEPT ![user_id] = TRUE]
             /\ UNCHANGED <<peak_views, tables, adding_movie, broadcasting, adding_category,
                            deleting_category>>
             /\ last' = TextRan(u, raw, sub, <<Reply("ask_code", <<>>)>>, <<>>, FALSE)
        ELSE IF text = LabelAddCategory
        THEN /\ dbFail = 0
             /\ adding_category' = [adding_category EXCEPT ![user_id] = TRUE]
             /\ UNCHANGED <<peak_views, tables, adding_movie, deleting_movie, broadcasting,
                            deleting_category>>
             /\ last' = TextRan(u, raw, sub,
                            <<Reply("ask_new_category", <<>>)>>, <<>>, FALSE)
        ELSE IF text = LabelDeleteCategory
        THEN /\ dbFail = 0
             /\ deleting_category' = [deleting_category EXCEPT ![user_id] = TRUE]
             /\ UNCHANGED <<peak_views, tables, adding_movie, deleting_movie, broadcasting,
                            adding_category>>
             /\ last' = TextRan(u, raw, sub,
                            <<Reply("ask_old_category", <<>>)>>, <<>>, FALSE)
        ELSE IF text = LabelTop
        THEN /\ dbFail \in 0..1
             /\ UNCHANGED <<peak_views, tables, flags>>
             /\ IF dbFail = 1
                THEN last' = TextRan(u, raw, sub, <<>>, <<>>, TRUE)
                ELSE \E movies_list \in get_top_movies(movies, TopLimit) :
                        last' = TextRan(u, raw, sub,
                                    <<Reply("top",
                                        [i \in 1..Len(movies_list) |->
                                            <<movies_list[i].title,
                                              movies_list[i].views>>])>>,
                                    <<>>, FALSE)
        ELSE IF text = LabelStats
        THEN /\ UNCHANGED <<peak_views, tables, flags>>
             /\ IF dbFail \in 1..MaxDbCalls
                THEN last' = TextRan(u, raw, sub, <<>>, <<>>, TRUE)
                ELSE \E names \in get_all_categories(categories) :
                        last' = TextRan(u, raw, sub,
                                    <<Reply("stats",
                                        <<get_user_count(users),
                                          get_movie_count(movies), Len(names)>>)>>,
                                    <<>>, FALSE)
        ELSE IF text = LabelBroadcast
        THEN /\ dbFail = 0
             /\ broadcasting' = [broadcasting EXCEPT ![user_id] = TRUE]
             /\ UNCHANGED <<peak_views, tables, adding_movie, deleting_movie, adding_category,
                            deleting_category>>
             /\ last' = TextRan(u, raw, sub, <<Reply("ask_text", <<>>)>>, <<>>, FALSE)
        ELSE /\ dbFail = 0
             /\ UNCHANGED <<peak_views, tables, flags>>
             /\ last' = TextRan(u, raw, sub, <<>>, <<>>, FALSE)

\* the sender is no admin: the text is a movie code, or else a title search
UserLookup(u, raw, sub, dbFail) ==
    LET text == Strip(raw)
        movie == get_movie(movies, text)
    IN  IF dbFail = 1
        THEN /\ UNCHANGED <<peak_views, tables, flags>>
             /\ last' = TextRan(u, raw, sub, <<>>, <<>>, TRUE)
        ELSE IF movie # {}
        THEN /\ dbFail \in 0..2
             /\ \A m \in movie : m.views < MaxViews
             /\ IF dbFail = 2
                THEN /\ UNCHANGED <<peak_views, tables, flags>>
                     /\ last' = TextRan(u, raw, sub, <<>>, <<>>, TRUE)
                ELSE /\ movies' = update_movie_views(movies, text)
                     /\ peak_views' = PeakAfter(movies')
                     /\ UNCHANGED <<categories, users, flags>>
                     /\ \E m \in movie :
                            last' = TextRan(u, raw, sub, <<Video(m)>>, <<>>, FALSE)
        ELSE /\ dbFail \in 0..2
             /\ UNCHANGED <<peak_views, tables, flags>>
             /\ IF dbFail = 2
                THEN last' = TextRan(u, raw, sub, <<>>, <<>>, TRUE)
                ELSE \E results \in search_movies(movies, text) :
                        IF results # <<>>
                        THEN last' = TextRan(u, raw, sub,
                                        [i \in 1..Len(results) |-> Video(results[i])],
                                        <<>>, FALSE)
                        ELSE last' = TextRan(u, raw, sub,
                                        <<Reply("not_found", <<>>)>>, <<>>, FALSE)

\* faulty variant: the menu labels are compared before the pending flags
text_handler_labels_first(u, raw, membership, dbFail) ==
    LET user_id == StrOf(u)
        sub == is_subscribed(membership)
    IN  IF ~sub.result THEN TextNotSubscribed(u, raw, sub, dbFail)
        ELSE IF is_admin(user_id)
        THEN IF Strip(raw) \in {LabelAddMovie, LabelDeleteMovie, LabelAddCategory,
                                LabelDeleteCategory, LabelBroadcast}
             THEN AdminMenu(u, raw, sub, dbFail)
             ELSE IF adding_movie[user_id] THEN AddingMovieFlow(u, raw, sub, dbFail)
             ELSE IF deleting_movie[user_id] THEN DeletingMovieFlow(u, raw, sub, dbFail)
             ELSE IF adding_category[user_id] THEN AddingCategoryFlow(u, raw, sub, dbFail)
             ELSE IF deleting_category[user_id]
             THEN DeletingCategoryFlow(u, raw, sub, dbFail)
             ELSE IF broadcasting[user_id] THEN BroadcastFlow(u, raw, sub, dbFail)
             ELSE AdminMenu(u, raw, sub, dbFail)
        ELSE UserLookup(u, raw, sub, dbFail)

\* text_handler(update, context)
text_handler(u, raw, membership, dbFail) ==
    LET user_id == StrOf(u)
        sub == is_subscribed(membership)
    IN  IF ~sub.result THEN TextNotSubscribed(u, raw, sub, dbFail)
        ELSE IF is_admin(user_id)
        THEN IF adding_movie[user_id] THEN AddingMovieFlow(u, raw, sub, dbFail)
             ELSE IF deleting_movie[user_id] THEN DeletingMovieFlow(u, raw, sub, dbFail)
             ELSE IF adding_category[user_id] THEN AddingCategoryFlow(u, raw, sub, dbFail)
             ELSE IF deleting_category[user_id]
             THEN DeletingCategoryFlow(u, raw, sub, dbFail)
             ELSE IF broadcasting[user_id] THEN BroadcastFlow(u, raw, sub, dbFail)
             ELSE AdminMenu(u, raw, sub, dbFail)
        ELSE UserLookup(u, raw, sub, dbFail)


\* ------------------------------------------------------------------ start
start(u, membership, dbFail) ==
    LET sub == is_subscribed(membership)
    IN  IF dbFail = 1
        THEN /\ UNCHANGED <<peak_views, tables, flags>>
             /\ last' = Ran("start", u, <<>>, "none", <<>>, <<>>, <<>>, TRUE)
        ELSE /\ dbFail = 0
             /\ users' = add_user(users, StrOf(u), UsernameOf(u))
             /\ UNCHANGED <<peak_views, movies, categories, flags>>
             /\ last' = Ran("start", u, <<>>, GateOf(sub), sub.queried,
                            IF sub.result
                            THEN <<Reply("welcome", <<>>)>>
                            ELSE <<Reply("subscribe", <<>>)>>,
                            <<>>, FALSE)

\* ------------------------------------------------------------------ admin
\* faulty variant: showing the panel ends the pending flow of the sender
admin_resetting(u) ==
    /\ adding_movie' = [adding_movie EXCEPT ![StrOf(u)] = FALSE]
    /\ deleting_movie' = [deleting_movie EXCEPT ![StrOf(u)] = FALSE]
    /\ broadcasting' = [broadcasting EXCEPT ![StrOf(u)] = FALSE]
    /\ adding_category' = [adding_category EXCEPT ![StrOf(u)] = FALSE]
    /\ deleting_category' = [deleting_category EXCEPT ![StrOf(u)] = FALSE]
    /\ UNCHANGED <<peak_views, tables>>
    /\ last' = Ran("admin", u, <<>>, "none", <<>>,
                   IF is_admin(StrOf(u))
                   THEN <<Reply("admin_panel", <<>>)>>
                   ELSE <<Reply("not_admin", <<>>)>>,
                   <<>>, FALSE)

admin(u) ==
    /\ UNCHANGED <<peak_views, tables, flags>>
    /\ last' = Ran("admin", u, <<>>, "none", <<>>,
                   IF is_admin(StrOf(u))
                   THEN <<Reply("admin_panel", <<>>)>>
                   ELSE <<Reply("not_admin", <<>>)>>,
                   <<>>, FALSE)

\* --------------------------------------------------------- button_handler
ButtonRan(u, data, sub, replies, raised) ==
    Ran("button", u, data, GateOf(sub), sub.queried, replies, <<>>, raised)

\* one inline button per movie: its title, and "movie_" + its code as data
MovieButtons(movies_list) ==
    [i \in 1..Len(movies_list) |->
        <<movies_list[i].title, PrefixMovie \o movies_list[i].code>>]

CategoryButtons(categories_list) ==
    [i \in 1..Len(categories_list) |->
        <<categories_list[i], PrefixCategory \o categories_list[i]>>]

\* elif data.startswith("movie_"): ...
OpenMovie(u, data, sub, dbFail) ==
    LET code == AfterPrefix(data, PrefixMovie)
        movie == get_movie(movies, code)
    IN  IF dbFail = 1
        THEN /\ UNCHANGED <<peak_views, tables, flags>>
             /\ last' = ButtonRan(u, data, sub, <<>>, TRUE)
        ELSE IF movie # {}
        THEN /\ dbFail \in 0..2
             /\ \A m \in movie : m.views < MaxViews
             /\ IF dbFail = 2
                THEN /\ UNCHANGED <<peak_views, tables, flags>>
                     /\ last' = ButtonRan(u, data, sub, <<>>, TRUE)
                ELSE /\ movies' = update_movie_views(movies, code)
                     /\ peak_views' = PeakAfter(movies')
                     /\ UNCHANGED <<categories, users, flags>>
                     /\ \E m \in movie :
                            last' = ButtonRan(u, data, sub, <<Video(m)>>, FALSE)
        ELSE /\ dbFail = 0
             /\ UNCHANGED <<peak_views, tables, flags>>
             /\ last' = ButtonRan(u, data, sub, <<Reply("not_found", <<>>)>>, FALSE)

button_handler(u, data, membership, dbFail) ==
    LET sub == is_subscribed(membership)
    IN  IF ~sub.result
        THEN /\ dbFail = 0
             /\ UNCHANGED <<peak_views, tables, flags>>
             /\ last' = ButtonRan(u, data, sub, <<Reply("subscribe", <<>>)>>, FALSE)
        ELSE IF data = DataMovies
        THEN /\ dbFail \in 0..1
             /\ UNCHANGED <<peak_views, tables, flags>>
             /\ IF dbFail = 1
                THEN last' = ButtonRan(u, data, sub, <<>>, TRUE)
                ELSE \E movies_list \in get_all_movies(movies) :
                        last' = ButtonRan(u, data, sub,
                                    IF movies_list # <<>>
                                    THEN <<Reply("movie_buttons",
                                                 MovieButtons(movies_list))>>
                                    ELSE <<Reply("no_movies", <<>>)>>,
                                    FALSE)
        ELSE IF data = DataCategories
        THEN /\ dbFail \in 0..1
             /\ UNCHANGED <<peak_views, tables, flags>>
             /\ IF dbFail = 1
                THEN last' = ButtonRan(u, data, sub, <<>>, TRUE)
                ELSE \E categories_list \in get_all_categories(categories) :
                        last' = ButtonRan(u, data, sub,
                                    IF categories_list # <<>>
                                    THEN <<Reply("category_buttons",
                                                 CategoryButtons(categories_list))>>
                                    ELSE <<Reply("no_categories", <<>>)>>,
                                    FALSE)
        ELSE IF StartsWith(data, PrefixCategory)
        THEN /\ dbFail \in 0..1
             /\ UNCHANGED <<peak_views, tables, flags>>
             /\ IF dbFail = 1
                THEN last' = ButtonRan(u, data, sub, <<>>, TRUE)
                ELSE \E movies_list \in
                          get_movies_by_category(movies,
                                                 AfterPrefix(data, PrefixCategory)) :
                        last' = ButtonRan(u, data, sub,
                                    IF movies_list # <<>>
                                    THEN <<Reply("movie_buttons",
                                                 MovieButtons(movies_list))>>
                                    ELSE <<Reply("no_movie", <<>>)>>,
                                    FALSE)
        ELSE IF StartsWith(data, PrefixMovie) THEN OpenMovie(u, data, sub, dbFail)
        ELSE IF data = DataSearch
        THEN /\ dbFail = 0
             /\ UNCHANGED <<peak_views, tables, flags>>
             /\ last' = ButtonRan(u, data, sub, <<Reply("search_prompt", <<>>)>>, FALSE)
        ELSE IF data = DataInfo
        THEN /\ dbFail = 0
             /\ UNCHANGED <<peak_views, tables, flags>>
             /\ last' = ButtonRan(u, data, sub, <<Reply("info", <<>>)>>, FALSE)
        ELSE /\ dbFail = 0
             /\ UNCHANGED <<peak_views, tables, flags>>
             /\ last' = ButtonRan(u, data, sub, <<>>, FALSE)

\* ------------------------------------------------------------ get_file_id
\* registered for video messages only, so update.message.video is set
get_file_id(u, file_id) ==
    /\ UNCHANGED <<peak_views, tables, flags>>
    /\ last' = Ran("media", u, file_id, "none", <<>>,
                   <<Reply("file_id", file_id)>>, <<>>, FALSE)

\* ----------------------------------------------------------------- inputs
TextMovieA == <<"A", ";", "r", ";", "T", "o", ";", "c">>
TextMovieAPadded == <<" ", "A", " ", ";", " ", "r", ";", "T", "o", " ", ";", "c", " ">>
TextMovieA2 == <<"A", ";", "s", ";", "A", "b", ";", "d">>
TextThreeFields == <<"A", ";", "r", ";", "T", "o">>
TextFiveFields == <<"A", ";", "r", ";", "T", "o", ";", "c", ";", "x">>
TextCodeA == <<"A">>
TextCodeAPadded == <<" ", "A", " ">>
TextUpperO == <<"O">>
TextNoMatch == <<"z">>
TextUnderscore == <<"_">>
TextCategoryC == <<"c">>
TextCategoryCPadded == <<" ", "c">>
TextHi == <<"h", "i">>
TextHiPadded == <<" ", "h", "i", " ">>

Labels == {LabelStats, LabelAddMovie, LabelDeleteMovie, LabelAddCategory,
           LabelDeleteCategory, LabelTop, LabelBroadcast}

\* the texts a user sends, by what the bot is waiting for from that user
TextInputs(u) ==
    LET user_id == StrOf(u)
    IN  IF ~is_admin(user_id)
        THEN {TextCodeA, TextCodeAPadded, TextUpperO, TextNoMatch, TextUnderscore,
              LabelAddMovie}
        ELSE IF adding_movie[user_id]
        THEN {TextMovieA, TextMovieAPadded, TextMovieA2,
              TextThreeFields, TextFiveFields, TextCodeA, LabelAddMovie}
        ELSE IF deleting_movie[user_id]
        THEN {TextCodeA, TextCodeAPadded, TextNoMatch, LabelAddMovie}
        ELSE IF adding_category[user_id]
        THEN {TextCategoryC, TextCategoryCPadded}
        ELSE IF deleting_category[user_id]
        THEN {TextCategoryC, TextCategoryCPadded, LabelDeleteCategory}
        ELSE IF broadcasting[user_id]
        THEN {TextHi, TextHiPadded, LabelBroadcast}
        ELSE Labels \cup {<<" ">> \o LabelAddCategory, TextCodeA}

DataInputs ==
    {DataMovies, DataCategories, DataSearch, PrefixCategory \o TextCategoryC,
     PrefixMovie \o TextCodeA, PrefixMovie \o TextNoMatch}

FileIds == {<<"r">>}

AllMember == [c \in ChannelNames |-> "member"]

\* what the platform answers about the sender at the time of an update
GateInputs ==
    {[AllMember EXCEPT ![Strip(CHANNELS[2])] = "creator"],
     [AllMember EXCEPT ![Strip(CHANNELS[2])] = "left"]}

\* ---------------------------------------------------------- specification
\* updates are processed one at a time: a handler runs to its end before the
\* next update is taken, and no run is ever left suspended
Next ==
    \/ \E u \in UserIds, membership \in GateInputs, dbFail \in 0..MaxDbCalls :
          \/ start(u, membership, dbFail) /\ UNCHANGED <<running, executed>>
          \/ \E raw \in TextInputs(u) :
                /\ text_handler(u, raw, membership, dbFail)
                /\ UNCHANGED <<running, executed>>
          \/ \E data \in DataInputs :
                /\ button_handler(u, data, membership, dbFail)
                /\ UNCHANGED <<running, executed>>
    \/ \E u \in UserIds : admin(u) /\ UNCHANGED <<running, executed>>
    \/ \E u \in UserIds, file_id \in FileIds :
          get_file_id(u, file_id) /\ UNCHANGED <<running, executed>>

Spec == Init /\ [][Next]_vars


\* the subscription check on its own, for every answer of the platform
check_subscription(membership) ==
    LET sub == is_subscribed(membership)
    IN  /\ UNCHANGED <<peak_views, tables, flags>>
        /\ last' = Ran("is_subscribed", 0, membership, GateOf(sub), sub.queried,
                       <<>>, <<>>, FALSE)

NextSubscribed ==
    /\ UNCHANGED <<running, executed>>
    /\ \E membership \in Memberships : check_subscription(membership)

SpecSubscribed == Init /\ [][NextSubscribed]_vars

\* the broadcast on its own, to three users stored by earlier runs of the
\* process: the third never talks to the bot in this run
StoredUsers ==
    {[user_id |-> "1", username |-> <<"a">>],
     [user_id |-> "2", username |-> <<>>],
     [user_id |-> "3", username |-> <<"c">>]}

InitBroadcast ==
    /\ running = NoRuns
    /\ executed = [k \in StrIds |-> 0]
    /\ movies = StoredMovies
    /\ categories = {}
    /\ users = StoredUsers
    /\ adding_movie = NoFlags
    /\ deleting_movie = NoFlags
    /\ broadcasting = NoFlags
    /\ adding_category = NoFlags
    /\ deleting_category = NoFlags
    /\ last = Ran("none", 0, <<>>, "none", <<>>, <<>>, <<>>, FALSE)
    /\ peak_views = [c \in {r.code : r \in StoredMovies} |-> 0]

BroadcastInputs == {LabelBroadcast, TextHi, TextHiPadded}

NextBroadcast ==
    /\ UNCHANGED <<running, executed>>
    /\ \E u \in {n \in UserIds : is_admin(StrOf(n))}, membership \in GateInputs,
          dbFail \in 0..MaxDbCalls, raw \in BroadcastInputs :
           text_handler(u, raw, membership, dbFail)

SpecBroadcast == InitBroadcast /\ [][NextBroadcast]_vars

\* ------------------------------------------------- interleaved text_handler
\* text_handler when runs for several messages are in flight at once: a run
\* is suspended at its awaits, and another run can be resumed in between.
\* The awaits that matter to the flags are the subscription check and the
\* database call of a flow; a part of the handler between two such awaits
\* runs without interruption.

TextCodeB == <<"B">>

\* the texts the admin sends in this specification
ConcurrentInputs == {LabelDeleteMovie, TextCodeB, LabelBroadcast, TextHi}

\* the outcome of a passed subscription check (every channel was looked up)
Passed == is_subscribed(AllMember)

\* the message arrives: the run starts and is suspended in is_subscribed
Receive(s, u, raw) ==
    /\ running[s].pc = "free"
    /\ \A t \in Slots : t < s => running[t].pc # "free"
    /\ running' = [running EXCEPT ![s] =
                      [pc |-> "gate", user |-> u, raw |-> raw, flow |-> "none",
                       stale |-> FALSE]]
    /\ UNCHANGED <<peak_views, tables, flags, last, executed>>

\* the run is suspended in the database call of the flow
Suspend(s, flow) ==
    running' = [running EXCEPT ![s].pc = "db", ![s].flow = flow]

\* is_subscribed has returned: the run goes on to its next await. The flows
\* with a catalog change reach their database call with the flag still set;
\* the broadcast clears its flag and then reads the users; the other
\* branches run to their end
Dispatch(s, membership, dbFail) ==
    LET u == running[s].user
        raw == running[s].raw
        user_id == StrOf(u)
        sub == is_subscribed(membership)
        ends == running' = [running EXCEPT ![s] = Free]
    IN  /\ running[s].pc = "gate"
        /\ IF ~sub.result
           THEN TextNotSubscribed(u, raw, sub, dbFail) /\ ends /\ UNCHANGED executed
           ELSE IF ~is_admin(user_id)
           THEN UserLookup(u, raw, sub, dbFail) /\ ends /\ UNCHANGED executed
           ELSE IF adding_movie[user_id] /\ Len(Split(Strip(raw))) # 4
           THEN AddingMovieFlow(u, raw, sub, dbFail) /\ ends /\ UNCHANGED executed
           ELSE IF adding_movie[user_id] \/ deleting_movie[user_id]
                   \/ adding_category[user_id] \/ deleting_category[user_id]
           THEN /\ dbFail = 0
                /\ Suspend(s, IF adding_movie[user_id] THEN "movie_add"
                               ELSE IF deleting_movie[user_id] THEN "movie_delete"
                               ELSE IF adding_category[user_id] THEN "category_add"
                               ELSE "category_delete")
                /\ UNCHANGED <<peak_views, tables, flags, last, executed>>
           ELSE IF broadcasting[user_id]
           THEN /\ dbFail = 0
                /\ broadcasting' = [broadcasting EXCEPT ![user_id] = FALSE]
                /\ Suspend(s, "broadcast")
                /\ UNCHANGED <<peak_views, tables, adding_movie, deleting_movie,
                               adding_category, deleting_category, last, executed>>
           ELSE /\ AdminMenu(u, raw, sub, dbFail)
                /\ IF Strip(raw) \in {LabelAddMovie, LabelDeleteMovie, LabelAddCategory,
                                      LabelDeleteCategory, LabelBroadcast}
                   THEN \* a new entry: the count starts again, and the runs
                        \* still in flight belong to an earlier entry
                        /\ executed' = [executed EXCEPT ![user_id] = 0]
                        /\ running' =
                              [t \in Slots |->
                                  IF t = s THEN Free
                                  ELSE IF running[t].user = u /\ running[t].pc = "db"
                                  THEN [running[t] EXCEPT !.stale = TRUE]
                                  ELSE running[t]]
                   ELSE ends /\ UNCHANGED executed

\* the database call of the flow returns or raises, and the run goes on to
\* its end: the flag is cleared and the confirmation sent
Complete(s, dbFail) ==
    LET u == running[s].user
        raw == running[s].raw
        flow == running[s].flow
    IN  /\ running[s].pc = "db"
        /\ CASE flow = "movie_add" -> AddingMovieFlow(u, raw, Passed, dbFail)
             [] flow = "movie_delete" -> DeletingMovieFlow(u, raw, Passed, dbFail)
             [] flow = "category_add" -> AddingCategoryFlow(u, raw, Passed, dbFail)
             [] flow = "category_delete" -> DeletingCategoryFlow(u, raw, Passed, dbFail)
             [] flow = "broadcast" ->
                    BroadcastSend(u, raw, Passed, dbFail) /\ UNCHANGED flags
        /\ running' = [running EXCEPT ![s] = Free]
        /\ executed' = IF last'.raised \/ running[s].stale THEN executed
                       ELSE [executed EXCEPT ![StrOf(u)] = @ + 1]

NextConcurrent ==
    \/ \E s \in Slots, u \in {n \in UserIds : is_admin(StrOf(n))},
          raw \in ConcurrentInputs : Receive(s, u, raw)
    \/ \E s \in Slots, membership \in GateInputs, dbFail \in 0..MaxDbCalls :
          Dispatch(s, membership, dbFail)
    \/ \E s \in Slots, dbFail \in 0..MaxDbCalls : Complete(s, dbFail)

SpecConcurrent == Init /\ [][NextConcurrent]_vars

\* ------------------------------------------------------- terms of the claims
\* the pending flags of user k that are set
FlagsOf(k) ==
    {n \in {"movie_add", "movie_delete", "category_add", "category_delete",
            "broadcast"} :
        CASE n = "movie_add" -> adding_movie[k]
          [] n = "movie_delete" -> deleting_movie[k]
          [] n = "category_add" -> adding_category[k]
          [] n = "category_delete" -> deleting_category[k]
          [] n = "broadcast" -> broadcasting[k]}

\* the state of user k in the dispatcher's state machine: idle, or the flow
\* the next text of k is taken for
PendingOf(k) ==
    IF adding_movie[k] THEN "movie_add"
    ELSE IF deleting_movie[k] THEN "movie_delete"
    ELSE IF adding_category[k] THEN "category_add"
    ELSE IF deleting_category[k] THEN "category_delete"
    ELSE IF broadcasting[k] THEN "broadcast"
    ELSE "idle"

\* FlagsOf and PendingOf in the state after the step
FlagsAfter(k) ==
    {n \in {"movie_add", "movie_delete", "category_add", "category_delete",
            "broadcast"} :
        CASE n = "movie_add" -> adding_movie'[k]
          [] n = "movie_delete" -> deleting_movie'[k]
          [] n = "category_add" -> adding_category'[k]
          [] n = "category_delete" -> deleting_category'[k]
          [] n = "broadcast" -> broadcasting'[k]}

PendingAfter(k) ==
    IF adding_movie'[k] THEN "movie_add"
    ELSE IF deleting_movie'[k] THEN "movie_delete"
    ELSE IF adding_category'[k] THEN "category_add"
    ELSE IF deleting_category'[k] THEN "category_delete"
    ELSE IF broadcasting'[k] THEN "broadcast"
    ELSE "idle"

\* the number of ";" in a text: one less than its number of fields
Delimiters(t) == Cardinality({i \in 1..Len(t) : t[i] = ";"})

\* the i-th field of a text, trimmed
Field(t, i) == Strip(Split(Strip(t))[i])

Codes(rows) == {r.code : r \in rows}

\* this step is a run of text_handler for an admin who was in state x
AdminTextStep(x) ==
    /\ last'.handler = "text"
    /\ is_admin(StrOf(last'.user))
    /\ PendingOf(StrOf(last'.user)) = x

\* the run of this step passed the gate and did not end in an exception
PassedAndStored == last'.gate = "pass" /\ ~last'.raised


\* ---------------------------------------------------------------------- C1
\* what the flow x does with the text of this step's message: the catalog
\* change or the broadcast with the trimmed text, the confirmation, and the
\* sender idle afterwards
PayloadExecuted(x) ==
    LET k == StrOf(last'.user)
        text == Strip(last'.input)
        sent == last'.sent
    IN  /\ PendingAfter(k) = "idle"
        /\ users' = users
        /\ x = "movie_delete" =>
              /\ movies' = {r \in movies : r.code # text}
              /\ categories' = categories
              /\ last'.replies = <<Reply("deleted", text)>>
        /\ x = "category_add" =>
              /\ categories' = categories \cup {text}
              /\ movies' = movies
              /\ last'.replies = <<Reply("category_added", text)>>
        /\ x = "category_delete" =>
              /\ categories' = categories \ {text}
              /\ movies' = movies
              /\ last'.replies = <<Reply("category_deleted", text)>>
        /\ x = "broadcast" =>
              /\ movies' = movies /\ categories' = categories
              /\ Len(sent) = Cardinality(users)
              /\ {sent[i].to : i \in 1..Len(sent)} = {IntOf(r.user_id) : r \in users}
              /\ \A i \in 1..Len(sent) : sent[i].text = text
              /\ last'.replies = <<Reply("broadcast_done", <<>>)>>

PayloadFlows == {"movie_delete", "category_add", "category_delete", "broadcast"}

FlowLabels ==
    {LabelAddMovie, LabelDeleteMovie, LabelAddCategory, LabelDeleteCategory,
     LabelBroadcast}

FlowOf(label) ==
    CASE label = LabelAddMovie -> "movie_add"
      [] label = LabelDeleteMovie -> "movie_delete"
      [] label = LabelAddCategory -> "category_add"
      [] label = LabelDeleteCategory -> "category_delete"
      [] label = LabelBroadcast -> "broadcast"

AllIdle == \A k \in StrIds : FlagsOf(k) = {}

\* this step is a run of text_handler for an idle admin who sent a flow label
IdleAdminSendsLabel ==
    /\ AdminTextStep("idle")
    /\ Strip(last'.input) \in FlowLabels

FlowOpened ==
    /\ FlagsAfter(StrOf(last'.user)) = {FlowOf(Strip(last'.input))}
    /\ movies' = movies /\ categories' = categories /\ users' = users

\* C2 as stated: every user starts idle, and an idle admin who sends the label
\* of add-movie, delete-movie, add-category, delete-category or broadcast is
\* then in exactly the matching awaiting state, the tables unchanged.
C2_AsStated == AllIdle /\ [][IdleAdminSendsLabel => FlowOpened]_vars

\* C2 amended: the same, for a label message that passes the subscription gate.
C2_LabelOpensFlow ==
    AllIdle /\ [][IdleAdminSendsLabel /\ last'.gate = "pass" => FlowOpened]_vars

\* C2 witness: the admin sent the delete-category label, padded or not, and
\* is awaiting the category to delete, and nothing else
C2_Witness ==
    /\ last.handler = "text"
    /\ Strip(last.input) = LabelDeleteCategory
    /\ last.replies = <<Reply("ask_old_category", <<>>)>>
    /\ FlagsOf(StrOf(last.user)) = {"category_delete"}

\* ---------------------------------------------------------------------- C3
\* the text was refused: no movie changed, the format hint sent, the admin
\* still awaiting the movie
FormatError ==
    /\ movies' = movies
    /\ last'.replies = <<Reply("format", <<>>)>>
    /\ PendingAfter(StrOf(last'.user)) = "movie_add"

\* C3 as stated: an admin awaiting movie-add who sends fewer than four fields
\* creates or changes no movie, gets the format-error reply and stays in
\* awaiting-movie-add.
C3_AsStated ==
    [][AdminTextStep("movie_add") /\ Delimiters(last'.input) < 3 => FormatError]_vars

\* C3 amended: the same, for a message that passes the subscription gate.
C3_FormatError ==
    [][AdminTextStep("movie_add") /\ Delimiters(last'.input) < 3
          /\ last'.gate = "pass" => FormatError]_vars

\* C3 witness: the three-field text was answered by the format error and the
\* admin still awaits the movie
C3_Witness ==
    /\ last.handler = "text"
    /\ last.input = TextThreeFields
    /\ last.replies = <<Reply("format", <<>>)>>
    /\ PendingOf(StrOf(last.user)) = "movie_add"

\* ---------------------------------------------------------------------- C4
\* the record the four fields of this step's text describe, with views v
RecordOf(t, v) == MovieRow(Field(t, 1), Field(t, 2), Field(t, 3), Field(t, 4), v)

FourNewFields ==
    /\ AdminTextStep("movie_add")
    /\ Delimiters(last'.input) = 3
    /\ Field(last'.input, 1) \notin Codes(movies)

MovieCreated ==
    /\ {r \in movies' : r.code = Field(last'.input, 1)} = {RecordOf(last'.input, 0)}
    /\ PendingAfter(StrOf(last'.user)) = "idle"

Handlers == {"start", "admin", "button", "text", "media"}

\* C5 as stated: every handler (start, admin, button, text, media) checks the
\* subscription gate before it produces any content, and when the gate fails
\* it sends only the subscribe reply, changes no movie or category and leaves
\* the pending flags as they were.
C5_AsStated ==
    [][last'.handler \in Handlers =>
          /\ last'.replies # <<>> => last'.gate # "none"
          /\ last'.gate = "fail" =>
                /\ last'.replies = <<Reply("subscribe", <<>>)>>
                /\ movies' = movies /\ categories' = categories
                /\ flags' = flags]_vars

\* ---------------------------------------------------------------------- C6
\* the channels, in the configured order, whose lookup for these answers
\* errors or gives a status other than member, administrator or owner
Refusing(membership) ==
    {i \in 1..Len(CHANNELS) :
        membership[Strip(CHANNELS[i])] \notin {"member", "administrator", "creator"}}

\* C6: is_subscribed is true exactly when every channel answers member,
\* administrator or owner (the platform's "creator"); an error or another
\* status on one channel makes it false, and the channels after the first
\* such channel are not looked up.
C6_Subscribed ==
    last.handler = "is_subscribed" =>
        LET refusing == Refusing(last.input)
            asked == IF refusing = {} THEN Len(CHANNELS)
                     ELSE CHOOSE i \in refusing : \A j \in refusing : i <= j
        IN  /\ (last.gate = "pass") <=> (refusing = {})
            /\ last.queried = [i \in 1..asked |-> Strip(CHANNELS[i])]

\* C6 witness: the first channel answered member, the lookup of the second
\* raised, the third was not asked and the result is false
C6_Witness ==
    /\ last.handler = "is_subscribed"
    /\ last.input[Strip(CHANNELS[1])] = "member"
    /\ last.input[Strip(CHANNELS[2])] = LookupError
    /\ last.input[Strip(CHANNELS[3])] = "member"
    /\ Len(last.queried) = 2
    /\ last.gate = "fail"

\* ---------------------------------------------------------------------- C7
\* the views of the movie with this code went up by one, nothing else changed
ViewedOnce(code) ==
    movies' = {IF r.code = code THEN [r EXCEPT !.views = r.views + 1] ELSE r :
                  r \in movies}

Delivered == last'.replies # <<>> /\ last'.replies[1].kind = "video"

\* this step is an open-movie callback, of the movie with that code
OpenMovieStep == last'.handler = "button" /\ StartsWith(last'.input, PrefixMovie)
OpenedCode == AfterPrefix(last'.input, PrefixMovie)

\* this step is a text of a user who is no admin: a code, or else a search
LookupStep == last'.handler = "text" /\ ~is_admin(StrOf(last'.user))

\* C7: each successful open-movie callback and each successful send-by-code
\* text raises the views of that movie by exactly one, and a lookup of a code
\* that is not in the catalog leaves every view counter as it was.
C7_ViewsByOne ==
    [][/\ OpenMovieStep /\ OpenedCode \in Codes(movies) /\ Delivered
            => ViewedOnce(OpenedCode)
       /\ LookupStep /\ Strip(last'.input) \in Codes(movies) /\ Delivered
            => ViewedOnce(Strip(last'.input))
       /\ OpenMovieStep /\ OpenedCode \notin Codes(movies) => movies' = movies
       /\ LookupStep /\ Strip(last'.input) \notin Codes(movies) => movies' = movies]_vars

\* C7 witness: the movie A was sent for its code, padded, and has one view;
\* the other movie has none
C7_Witness ==
    /\ last.handler = "text"
    /\ last.input = TextCodeAPadded
    /\ last.replies # <<>> /\ last.replies[1].kind = "video"
    /\ \E r \in movies : r.code = TextCodeA /\ r.views = 1
    /\ \E r \in movies : r.code # TextCodeA /\ r.views = 0

\* ---------------------------------------------------------------------- C8
\* C8 as stated: every delivery of a movie's media to a user raises its views:
\* by the open-movie callback, by a code in a text, by a title match in a text.
C8_AsStated ==
    [][\A i \in 1..Len(last'.replies) :
          last'.replies[i].kind = "video" =>
              \E r \in movies :
                  /\ last'.replies[i] = Video(r)
                  /\ \E x \in movies' : x.code = r.code /\ x.views = r.views + 1]_vars


\* ---------------------------------------------------------------------- C9
\* this step upserted the movie its four-field text describes
UpsertStep ==
    /\ AdminTextStep("movie_add")
    /\ Delimiters(last'.input) = 3
    /\ PassedAndStored

\* C9: upserting a movie whose code exists overwrites media-ref, title and
\* category with the new values and leaves the views as they were.
C9_UpsertKeepsViews ==
    [][UpsertStep =>
          \A r \in movies :
              r.code = Field(last'.input, 1) =>
                  {x \in movies' : x.code = r.code} = {RecordOf(last'.input, r.views)}]_vars

\* C9 witness: the movie A, viewed once, was upserted with other fields and
\* still has its view
C9_Witness ==
    /\ last.handler = "text"
    /\ last.input = TextMovieA2
    /\ last.replies = <<Reply("added", <<"A", "b">>)>>
    /\ MovieRow(<<"A">>, <<"s">>, <<"A", "b">>, <<"d">>, 1) \in movies

\* --------------------------------------------------------------------- C10
\* C10 as stated: the views of a code are never negative, and in any two
\* states of a run that both hold a record of the code, the later views are at
\* least the earlier ones (peak_views holds the highest of the earlier ones).
C10_AsStated ==
    \A r \in movies : r.views >= 0 /\ r.views >= peak_views[r.code]

\* C10 amended: the views of a code are never negative and never decrease
\* while its record stays in the catalog: a step that keeps the record leaves
\* its views at least as high. (A record deleted and added again starts at 0.)
C10_ViewsKept ==
    /\ \A r \in movies : r.views >= 0
    /\ [][\A r \in movies, x \in movies' :
             x.code = r.code => x.views >= r.views /\ x.views >= 0]_vars

\* C10 witness: the movie A was opened by its button and keeps its one view
\* through a later step of another handler
C10_Witness ==
    /\ last.handler = "media"
    /\ \E r \in movies : r.code = TextCodeA /\ r.views = 1 /\ peak_views[r.code] = 1

\* --------------------------------------------------------------------- C11
\* this step is a broadcast that read its list of users
BroadcastStep == AdminTextStep("broadcast") /\ PassedAndStored

\* the number of deliveries of this step addressed to the platform user n
AttemptsTo(n) ==
    Cardinality({i \in 1..Len(last'.sent) : last'.sent[i].to = n})

\* C11: a broadcast attempts the delivery of its text to every stored user
\* exactly once, whether or not an earlier delivery failed, and sends the
\* completion confirmation to the admin exactly once, after all the attempts.
C11_Broadcast ==
    [][BroadcastStep =>
          /\ \A r \in users : AttemptsTo(IntOf(r.user_id)) = 1
          /\ Len(last'.sent) = Cardinality(users)
          /\ \A i \in 1..Len(last'.sent) : last'.sent[i].text = Strip(last'.input)
          /\ last'.replies = <<Reply("broadcast_done", <<>>)>>
          /\ last'.order = [i \in 1..Cardinality(users) |-> "send"] \o <<"reply">>]_vars

\* C11 witness: of three stored users the second delivery failed, the third
\* was attempted and succeeded, and the confirmation was sent once
C11_Witness ==
    /\ last.handler = "text"
    /\ Len(last.sent) = 3
    /\ ~last.sent[2].ok
    /\ last.sent[3].ok
    /\ last.replies = <<Reply("broadcast_done", <<>>)>>

\* --------------------------------------------------------------------- C12
\* C12: in every reachable state every user has at most one of the five
\* pending flags set: the user is idle or in a single awaiting state.
C12_OneFlag == \A k \in StrIds : Cardinality(FlagsOf(k)) <= 1

\* C12 witness: an admin who went through the add-movie and the delete-movie
\* flow (the movie A was stored and is gone again) and then opened the
\* broadcast flow awaits the broadcast text and nothing else
C12_Witness ==
    /\ last.handler = "text"
    /\ last.replies = <<Reply("ask_text", <<>>)>>
    /\ FlagsOf(StrOf(last.user)) = {"broadcast"}
    /\ \A r \in movies : r.code # TextCodeA
    /\ peak_views = [c \in {TextCodeA, <<"B">>} |-> 0]

\* --------------------------------------------------------------------- C13
\* C13 as stated: every interaction of a user (start, admin, button, text,
\* media) upserts the record of that user, so after it a record of the user
\* exists. (The time of the upsert is not kept in the rows of the model; the
\* record that must hold it is.)
C13_AsStated ==
    [][last'.handler \in Handlers =>
          \E r \in users' : r.user_id = StrOf(last'.user)]_vars

\* --------------------------------------------------------------------- C14
\* the text x occurs in the text t
Contains(t, x) ==
    \E i \in 0..(Len(t) - Len(x)) : SubSeq(t, i + 1, i + Len(x)) = x

\* the movies whose title contains the text, whatever the case of letters
TitleMatches(text) == {r \in movies : Contains(Lower(r.title), Lower(text))}

\* the replies are the media of these rows, each once, in some order
MediaOf(rows) == \E q \in Orders(rows) : last'.replies = [i \in 1..Len(q) |-> Video(q[i])]

\* C14 as stated: a text of a subscribed user who is no admin is first taken
\* as a movie code: on a hit the views go up by one and the media is sent
\* and nothing else; on a miss the media of every movie whose title contains
\* the text is sent, or one not-found message when no title contains it.
\* (Stated for the runs that do not end in an exception.)
C14_AsStated ==
    [][LookupStep /\ PassedAndStored =>
          LET text == Strip(last'.input)
          IN  IF text \in Codes(movies)
              THEN ViewedOnce(text) /\ MediaOf(get_movie(movies, text))
              ELSE /\ movies' = movies
                   /\ IF TitleMatches(text) # {}
                      THEN MediaOf(TitleMatches(text))
                      ELSE last'.replies = <<Reply("not_found", <<>>)>>]_vars

\* --------------------------------------------------------------------- C15
\* C15: deleting a category removes that name from the categories and nothing
\* else: every movie, also one labelled with the deleted name, stays as it
\* was, and deleting a name that is not stored changes no table.
C15_NoCascade ==
    [][AdminTextStep("category_delete") =>
          LET name == Strip(last'.input)
          IN  /\ movies' = movies
              /\ users' = users
              /\ PassedAndStored => categories' = categories \ {name}
              /\ name \notin categories => categories' = categories]_vars

\* C15 witness: the name c was deleted while two movies are labelled with it;
\* both are still stored with that label, and c is no category
C15_Witness ==
    /\ last.handler = "text"
    /\ last.replies = <<Reply("category_deleted", TextCategoryC)>>
    /\ TextCategoryC \notin categories
    /\ Cardinality({r \in movies : r.category = TextCategoryC}) = 2

\* --------------------------------------------------------------------- C16
\* C16 as stated: each entry of an admin into an awaiting state causes at
\* most one execution of the awaited operation, also when two texts of that
\* admin are handled at once and their runs interleave at the awaits.
C16_AsStated == \A k \in StrIds : executed[k] <= 1

\* --------------------------------------------------------------------- C17
\* the one database call of the movie-add flow, in its four-field branch,
\* raised in this step
AddMovieFailed == last'.raised /\ Delimiters(last'.input) = 3

\* the movie of the first four fields of this step's text is stored, the
\* confirmation names its title and the admin is idle
Upserted ==
    /\ \E r \in movies' :
          /\ r.code = Field(last'.input, 1)
          /\ r.file_id = Field(last'.input, 2)
          /\ r.title = Field(last'.input, 3)
          /\ r.category = Field(last'.input, 4)
    /\ last'.replies = <<Reply("added", Field(last'.input, 3))>>
    /\ PendingAfter(StrOf(last'.user)) = "idle"

\* C17 as stated: a text handled for a subscribed admin awaiting movie-add
\* has one of two outcomes, by its number of fields: with four or more the
\* movie is upserted, the flag cleared and the confirmation sent; with fewer
\* the format error is sent and nothing changes. No number of fields ends
\* the handler without a reply. (A failing database call aside.)
C17_AsStated ==
    [][AdminTextStep("movie_add") /\ last'.gate = "pass" /\ ~AddMovieFailed =>
          /\ IF Delimiters(last'.input) >= 3 THEN Upserted ELSE FormatError
          /\ last'.replies # <<>>]_vars

\* --------------------------------------------------------------------- C18
\* this step handled an update of a user who is not in the allowlist
OutsiderStep == last'.handler \in Handlers /\ StrOf(last'.user) \notin ADMINS

\* the movies are the same records, but for views that went up
OnlyViewsUp ==
    /\ Codes(movies') = Codes(movies)
    /\ \A r \in movies : \E x \in movies' :
          x.views >= r.views /\ [x EXCEPT !.views = r.views] = r

\* C18: whatever a user outside the allowlist sends (commands, buttons,
\* texts equal to menu labels or payloads), no pending flag of that user is
\* ever set, no movie or category is added or deleted and nothing is
\* broadcast; the only change to the catalog is a view counter going up.
C18_Outsider ==
    /\ [](\A k \in StrIds \ ADMINS : FlagsOf(k) = {})
    /\ [][OutsiderStep =>
             /\ flags' = flags
             /\ categories' = categories
             /\ OnlyViewsUp
             /\ last'.sent = <<>>]_vars

\* C18 witness: a subscribed user outside the allowlist sent the add-movie
\* label after an admin stored the movie A and a category: the text was
\* searched as a title, and the user has no flag
C18_Witness ==
    /\ last.handler = "text"
    /\ StrOf(last.user) \notin ADMINS
    /\ last.input = LabelAddMovie
    /\ last.replies = <<Reply("not_found", <<>>)>>
    /\ FlagsOf(StrOf(last.user)) = {}
    /\ TextCodeA \in Codes(movies)
    /\ categories # {}

\* --------------------------------------------------------------------- C19
\* C19: the start command, the admin command, every button and the media
\* handler leave the pending flags of every user as they were: an admin in
\* an awaiting state who issues one of them is still in it; only the
\* handling of a text message changes a pending state.
C19_FlagsKept ==
    [][/\ last'.handler \in {"start", "admin", "button", "media"} => flags' = flags
       /\ flags' # flags => last'.handler = "text"]_vars

\* C19 witness: an admin awaiting the code of the movie to delete sent the
\* admin command, got the panel and still awaits the code
C19_Witness ==
    /\ last.handler = "admin"
    /\ last.replies = <<Reply("admin_panel", <<>>)>>
    /\ FlagsOf(StrOf(last.user)) = {"movie_delete"}

\* --------------------------------------------------------------------- C20
\* this step is a text of an admin in state x whose database call raised:
\* the catalog change of a flow, or the read of the users of a broadcast
\* (in the movie-add flow only a four-field text reaches the database)
DbFailedStep(x) ==
    /\ AdminTextStep(x)
    /\ last'.raised
    /\ x = "movie_add" => Delimiters(last'.input) = 3

\* C20: when the catalog change of a pending movie-add, movie-delete,
\* category-add or category-delete fails with a database error, the handler
\* ends by the error, the tables are unchanged, nothing is confirmed and the
\* flag stays set; a pending broadcast whose read of the users fails leaves
\* the admin idle, with nothing delivered and nothing confirmed.
C20_DbError ==
    [][/\ \A x \in {"movie_add", "movie_delete", "category_add", "category_delete"} :
             DbFailedStep(x) =>
                 /\ tables' = tables
                 /\ last'.replies = <<>>
                 /\ flags' = flags
                 /\ PendingAfter(StrOf(last'.user)) = x
       /\ DbFailedStep("broadcast") =>
             /\ tables' = tables
             /\ last'.replies = <<>> /\ last'.sent = <<>>
             /\ PendingAfter(StrOf(last'.user)) = "idle"]_vars

\* C20 witness: the delete of the stored movie A failed: the handler raised,
\* A is still stored and the admin still awaits the code, while a user is
\* registered who would have got a broadcast
C20_Witness ==
    /\ last.handler = "text"
    /\ last.raised
    /\ last.input = TextCodeA
    /\ TextCodeA \in Codes(movies)
    /\ PendingOf(StrOf(last.user)) = "movie_delete"
    /\ users # {}

====
